---------------------------- MODULE Spec2Model ----------------------------
(***************************************************************************)
(* A model of github.com/sollniss/pattern: the Part constructors, the      *)
(* Append methods of every Part, the random source they draw from, and     *)
(* the callers of a Generator (sequential and concurrent).                 *)
(*                                                                         *)
(* Machine integers are modelled with their wrap-around, at a reduced      *)
(* width: a uint32 has Bits bits and a uint64 has 2*Bits bits, so that     *)
(* every raw value of the random source can be enumerated.  A float64 is   *)
(* a fixed-point number: an integer count of units of 2^-(MantBits+1),     *)
(* or NaN.  A byte is its number (97 is 'a'), a string a sequence of       *)
(* bytes.  Slices are 1-indexed sequences: Go's p[n] is p[n + 1].          *)
(***************************************************************************)
EXTENDS Integers, Sequences, FiniteSets, TLC

(***************************************************************************)
(* Bounds of the model.                                                    *)
(***************************************************************************)
\* A uint32 is modelled with Bits bits, a uint64 with 2*Bits bits.
Bits == 2
\* Sequence bounds are drawn within SeqSpan of 0 and of the largest uint64.
SeqSpan == 2
\* Calls of Append made on one generator.
MaxCalls == 2
\* Calls of String made on one generator, beside the calls of Append.
MaxStringCalls == 1
\* Calls made on a generator built from a Sequence.
MaxSeqCalls == 6
\* Concurrent callers of one Sequence, and the calls they make in all.
NumThreads == 2
MaxConcCalls == 4
\* Arguments of a call of New.
MaxArgs == 2

U32 == 2 ^ Bits
U64 == 2 ^ (2 * Bits)
MaxUint32 == U32 - 1
MaxUint64 == U64 - 1
\* Bits of a float64 mantissa that RandFloat64 keeps of a raw draw.
MantBits == 2 * Bits - 1
\* 1.0 in the fixed-point units of a float64.
One == 2 ^ (MantBits + 1)

ToU32(x) == x % U32
ToU64(x) == x % U64

\* Every value internal.Fastrand() can return.
Raw == 0 .. MaxUint64

(***************************************************************************)
(* float64                                                                 *)
(***************************************************************************)
F(v) == [nan |-> FALSE, v |-> v]
NaN == [nan |-> TRUE, v |-> 0]
FLt(x, y) == ~x.nan /\ ~y.nan /\ x.v < y.v
FLe(x, y) == ~x.nan /\ ~y.nan /\ x.v <= y.v
FGe(x, y) == ~x.nan /\ ~y.nan /\ x.v >= y.v
FEq(x, y) == ~x.nan /\ ~y.nan /\ x.v = y.v

(***************************************************************************)
(* internal: the random source                                             *)
(***************************************************************************)
int53Mask == 2 ^ MantBits - 1
\* 2^-MantBits in fixed-point units.
f53Mul == One \div (2 ^ MantBits)

\* A variant keeping the low word of the product instead of the high one.
RandNHigh(n, r) == ToU32((n * r) % U64)
\* bits.Mul64(uint64(n), Fastrand()) keeps the high word of the product.
RandN(n, r) == ToU32((n * r) \div U64)

RandFloat64(r) == F((r % (int53Mask + 1)) * f53Mul)

(***************************************************************************)
(* Parts                                                                   *)
(***************************************************************************)
Panic(msg) == [kind |-> "panic", msg |-> msg]
IsPanic(p) == p.kind = "panic"

nullpart == [kind |-> "nullpart"]

Literal(s) == [kind |-> "literal", s |-> s]

Group(p) == IF Len(p) = 1 THEN p[1] ELSE [kind |-> "group", parts |-> p]

RECURSIVE NewLoop(_, _, _)
\* A variant that drops a Group instead of unwrapping it.
NewLoopDropGroups(parts, p, i) ==
    IF i >= Len(p) THEN parts
    ELSE LET v == p[i + 1] IN
         CASE v.kind \in {"nullpart", "group"} -> NewLoop(parts, p, i + 1)
           [] OTHER               -> NewLoop(Append(parts, v), p, i + 1)
NewLoop(parts, p, i) ==
    IF i >= Len(p) THEN parts
    ELSE LET v == p[i + 1] IN
         CASE v.kind = "nullpart" -> NewLoop(parts, p, i + 1)
           [] v.kind = "group"    -> NewLoop(parts \o v.parts, p, i + 1)
           [] OTHER               -> NewLoop(Append(parts, v), p, i + 1)
New(p) == [kind |-> "gen", parts |-> NewLoop(<<>>, p, 0)]

RECURSIVE RepeatCopies(_, _, _, _)
RepeatCopies(g, p, i, max) ==
    IF i < max THEN RepeatCopies(g \o p, p, ToU32(i + 1), max) ELSE g

\* A variant without the max >= min check.
RepeatLaxCheck(min, max, p) ==
    IF max < min THEN Panic("max must be >= min")
    ELSE IF min = max
        THEN [kind |-> "group", parts |-> RepeatCopies(<<>>, p, 0, max)]
    ELSE IF min = 0 /\ max = 1
        THEN [kind |-> "potentially50", part |-> Group(p)]
    ELSE [kind |-> "repeat", parts |-> p, min |-> min,
          maxr |-> ToU32(ToU32(max - min) + 1)]
Repeat(min, max, p) ==
    IF max = 0 THEN Panic("max must be > 0")
    ELSE IF max < min THEN Panic("max must be >= min")
    ELSE IF min > 0 /\ min = max
        THEN [kind |-> "group", parts |-> RepeatCopies(<<>>, p, 0, max)]
    ELSE IF min = 0 /\ max = 1
        THEN [kind |-> "potentially50", part |-> Group(p)]
    ELSE [kind |-> "repeat", parts |-> p, min |-> min,
          maxr |-> ToU32(ToU32(max - min) + 1)]

Potentially(c, p) ==
    IF FLt(c, F(0)) THEN Panic("chance must be > 0")
    ELSE IF FEq(c, F(0)) THEN nullpart
    ELSE IF FGe(c, F(One)) THEN p
    ELSE IF FEq(c, F(One \div 2)) THEN [kind |-> "potentially50", part |-> p]
    ELSE [kind |-> "potentiallyP", part |-> p, percent |-> c]

OneOf(p) == IF Len(p) = 1 THEN p[1]
            ELSE [kind |-> "anyOf", parts |-> p, len |-> ToU32(Len(p))]

OneOfString(s) == [kind |-> "anyOfString", alphabet |-> s, len |-> ToU32(Len(s))]

OneOfByte(bs) == [kind |-> "anyOfByte", alphabet |-> bs, len |-> ToU32(Len(bs))]

OneOfRune(r) == [kind |-> "anyOfRune", alphabet |-> r, len |-> ToU32(Len(r))]

\* The slice p lives in the heap cell addr; the Part holds the slice header.
Shuffle(p, addr) == [kind |-> "shuffle", parts |-> addr, len |-> ToU32(Len(p))]

\* The counter lives in the heap cell addr, which starts at SequenceCurr.
SequenceCurr(start) == ToU64(start - 1)
Sequence(start, max, width, addr) ==
    IF max < start THEN Panic("max must be >= min")
    ELSE [kind |-> "sequence", start |-> start, max |-> max,
          width |-> width, curr |-> addr]

(***************************************************************************)
(* Generation.  An invocation runs against a store st:                     *)
(*   b    the buffer being appended to                                     *)
(*   rnd  the values internal.Fastrand() returns, in call order            *)
(*   i    how many of them have been drawn                                 *)
(*   mem  the heap: Sequence counters and Shuffle slices                   *)
(*   ok   FALSE once the invocation has panicked                           *)
(*   js   the indices j that Shuffle's loop has drawn, in order            *)
(***************************************************************************)
Fastrand(st) == st.rnd[st.i + 1]
Drawn(st) == [st EXCEPT !.i = st.i + 1]
Paniced(st) == [st EXCEPT !.ok = FALSE]

itob(u) == (48 + u) % 256

RECURSIVE CountDigits(_, _)
CountDigits(u2, n) == IF u2 > 0 THEN CountDigits(u2 \div 10, n + 1) ELSE n

RECURSIVE PadZeros(_, _)
PadZeros(b, pad) == IF pad > 0 THEN PadZeros(Append(b, 48), pad - 1) ELSE b

\* make([]byte, n), or the n bytes of spare capacity behind b.
RECURSIVE Grow(_, _)
Grow(b, n) == IF n > 0 THEN Grow(Append(b, 0), n - 1) ELSE b

RECURSIVE Assemble(_, _, _)
Assemble(b, u, i) ==
    IF u >= 10 /\ i > 0
    THEN LET q == u \div 10
         IN Assemble([b EXCEPT ![i + 1] = itob(u - q * 10)], q, i - 1)
    ELSE [b EXCEPT ![i + 1] = itob(u)]

appendInt(b, u, width) ==
    LET n == CountDigits(u, IF u = 0 THEN 1 ELSE 0)
        padded == PadZeros(b, width - n)
        grown == Grow(padded, n)
    IN Assemble(grown, u, Len(grown) - 1)

\* string(rune): the UTF-8 encoding, U+FFFD for an invalid code point.
EncodeRune(r) ==
    IF r < 0 \/ r > 1114111 \/ (r >= 55296 /\ r <= 57343) THEN <<239, 191, 189>>
    ELSE IF r < 128 THEN <<r>>
    ELSE IF r < 2048 THEN <<192 + (r \div 64), 128 + (r % 64)>>
    ELSE IF r < 65536
        THEN <<224 + (r \div 4096), 128 + ((r \div 64) % 64), 128 + (r % 64)>>
    ELSE <<240 + (r \div 262144), 128 + ((r \div 4096) % 64),
           128 + ((r \div 64) % 64), 128 + (r % 64)>>

\* A variant without the curr < start test (no wrap at the largest uint64).
sequenceNextNoWrap(p, last) ==
    LET curr == ToU64(last + 1)
    IN IF curr > p.max THEN p.start ELSE curr
\* The value a Sequence stores and emits after reading last.
sequenceNext(p, last) ==
    LET curr == ToU64(last + 1)
    IN IF curr > p.max \/ curr < p.start THEN p.start ELSE curr

Swap(a, i, j) == [a EXCEPT ![i + 1] = a[j + 1], ![j + 1] = a[i + 1]]

RECURSIVE PartAppend(_, _)
RECURSIVE AppendEach(_, _, _)
RECURSIVE repeatLoop(_, _, _, _)
RECURSIVE shuffleLoop(_, _, _)
RECURSIVE shuffleEmit(_, _, _)

\* for _, p := range parts { b = p.Append(b) }
AppendEach(parts, i, st) ==
    IF i >= Len(parts) \/ ~st.ok THEN st
    ELSE AppendEach(parts, i + 1, PartAppend(parts[i + 1], st))

repeatLoop(p, i, n, st) ==
    IF i < n /\ st.ok
    THEN repeatLoop(p, ToU32(i + 1), n, AppendEach(p.parts, 0, st))
    ELSE st

\* A variant that does not add min to the drawn count.
repeatAppendNoMin(p, st) ==
    LET n == RandN(p.maxr, Fastrand(st))
    IN repeatLoop(p, 0, n, Drawn(st))
repeatAppend(p, st) ==
    LET n == ToU32(RandN(p.maxr, Fastrand(st)) + p.min)
    IN repeatLoop(p, 0, n, Drawn(st))

potentially50Append(p, st) ==
    IF Fastrand(st) % 2 = 1 THEN PartAppend(p.part, Drawn(st)) ELSE Drawn(st)

potentiallyPAppend(p, st) ==
    IF FLe(RandFloat64(Fastrand(st)), p.percent)
    THEN PartAppend(p.part, Drawn(st))
    ELSE Drawn(st)

literalAppend(p, st) == [st EXCEPT !.b = st.b \o p.s]

anyOfAppend(p, st) ==
    LET n == RandN(p.len, Fastrand(st))
    IN IF n >= Len(p.parts) THEN Paniced(Drawn(st))
       ELSE PartAppend(p.parts[n + 1], Drawn(st))

anyOfStringAppend(p, st) ==
    LET n == RandN(p.len, Fastrand(st))
    IN IF n >= Len(p.alphabet) THEN Paniced(Drawn(st))
       ELSE [Drawn(st) EXCEPT !.b = st.b \o p.alphabet[n + 1]]

anyOfByteAppend(p, st) ==
    LET n == RandN(p.len, Fastrand(st))
    IN IF n >= Len(p.alphabet) THEN Paniced(Drawn(st))
       ELSE [Drawn(st) EXCEPT !.b = Append(st.b, p.alphabet[n + 1])]

anyOfRuneAppend(p, st) ==
    LET n == RandN(p.len, Fastrand(st))
    IN IF n >= Len(p.alphabet) THEN Paniced(Drawn(st))
       ELSE [Drawn(st) EXCEPT !.b = st.b \o EncodeRune(p.alphabet[n + 1])]

\* A variant drawing j := RandN(len) at every step (the naive shuffle).
shuffleLoopBiased(p, i, st) ==
    IF ~(i > 0) \/ ~st.ok THEN st
    ELSE LET j == RandN(p.len, Fastrand(st))
             a == st.mem[p.parts]
         IN IF i >= Len(a) \/ j >= Len(a) THEN Paniced(Drawn(st))
            ELSE shuffleLoop(p, ToU32(i - 1),
                             [Drawn(st) EXCEPT !.mem[p.parts] = Swap(a, i, j),
                                               !.js = Append(st.js, j)])
\* for i := p.len - 1; i > 0; i-- { j := RandN(i + 1); swap parts[i], parts[j] }
shuffleLoop(p, i, st) ==
    IF ~(i > 0) \/ ~st.ok THEN st
    ELSE LET j == RandN(ToU32(i + 1), Fastrand(st))
             a == st.mem[p.parts]
         IN IF i >= Len(a) \/ j >= Len(a) THEN Paniced(Drawn(st))
            ELSE shuffleLoop(p, ToU32(i - 1),
                             [Drawn(st) EXCEPT !.mem[p.parts] = Swap(a, i, j),
                                               !.js = Append(st.js, j)])

\* for i := uint32(0); i < p.len; i++ { b = p.parts[i].Append(b) }
shuffleEmit(p, i, st) ==
    IF ~(i < p.len) \/ ~st.ok THEN st
    ELSE IF i >= Len(st.mem[p.parts]) THEN Paniced(st)
    ELSE shuffleEmit(p, ToU32(i + 1), PartAppend(st.mem[p.parts][i + 1], st))

shuffleAppend(p, st) == shuffleEmit(p, 0, shuffleLoop(p, ToU32(p.len - 1), st))

\* One caller alone: the first compare-and-swap succeeds.
sequenceAppend(p, st) ==
    LET last == st.mem[p.curr]
        curr == sequenceNext(p, last)
    IN [st EXCEPT !.mem[p.curr] = curr, !.b = appendInt(st.b, curr, p.width)]

\* The dynamic dispatch of Part.Append.
PartAppend(p, st) ==
    IF ~st.ok THEN st
    ELSE CASE p.kind = "gen"           -> AppendEach(p.parts, 0, st)
           [] p.kind = "nullpart"      -> st
           [] p.kind = "group"         -> AppendEach(p.parts, 0, st)
           [] p.kind = "repeat"        -> repeatAppend(p, st)
           [] p.kind = "potentially50" -> potentially50Append(p, st)
           [] p.kind = "potentiallyP"  -> potentiallyPAppend(p, st)
           [] p.kind = "literal"       -> literalAppend(p, st)
           [] p.kind = "anyOf"         -> anyOfAppend(p, st)
           [] p.kind = "anyOfString"   -> anyOfStringAppend(p, st)
           [] p.kind = "anyOfByte"     -> anyOfByteAppend(p, st)
           [] p.kind = "anyOfRune"     -> anyOfRuneAppend(p, st)
           [] p.kind = "shuffle"       -> shuffleAppend(p, st)
           [] p.kind = "sequence"      -> sequenceAppend(p, st)

(***************************************************************************)
(* The program's state.                                                    *)
(***************************************************************************)
VARIABLES
    phase,  \* "new", "ready" (constructed), "panic" (the constructor
            \* panicked) or "genpanic" (an invocation panicked)
    req,    \* the constructor call made: its name and arguments
    gen,    \* the generator New returned
    mem,    \* the heap: Sequence counters and Shuffle slices
    b0,     \* the caller's buffer before any call
    prev,   \* the caller's buffer before the latest Append
    b,      \* the caller's buffer
    str,    \* what the latest String() returned
    strCalls, \* the number of String() calls made
    calls,  \* invocations of Append (by callers: of String) made so far
    pc,     \* per concurrent caller: "idle", "load" or "cas"
    last,   \* per concurrent caller: the counter value it loaded
    curr,   \* per concurrent caller: the value it tries to store
    res,    \* per concurrent caller: what its latest String() returned
    log     \* the values stored by the successful compare-and-swaps of the
            \* calls counted in calls, in order

vars == <<phase, req, gen, mem, b0, prev, b, str, strCalls, calls, pc, last, curr, res,
          log>>
seqVars == <<prev, b, str>>
concVars == <<pc, last, curr, res, log>>

Threads == 1 .. NumThreads

(***************************************************************************)
(* The arguments the callers pass.                                         *)
(***************************************************************************)
La == Literal(<<97>>)
Lb == Literal(<<98>>)
Lc == Literal(<<99>>)

Lits(n) == [i \in 1 .. n |-> Literal(<<96 + i>>)]
Strs(n) == [i \in 1 .. n |-> IF i = 2 THEN <<>> ELSE <<96 + i, 96 + i>>]
Bytes(n) == [i \in 1 .. n |-> 96 + i]
\* 'a', o-acute, a smiley, an emoji and a lone surrogate.
RunePool == <<97, 243, 9786, 128512, 55296>>
Runes(n) == [i \in 1 .. n |-> RunePool[((i - 1) % Len(RunePool)) + 1]]

CallerBufs == {<<>>, <<104, 105>>}

\* Alphabet sizes: empty, small, and past what a uint32 holds.
AlphabetSizes == 0 .. (U32 + 1)
ShuffleSizes == {0, 1, 2, 3, U32 + 1}

RepeatChildren ==
    { <<>>, <<La>>, <<La, Lb>>, <<Group(<<La, Lb>>), Lc>>,
      <<Potentially(F(0), La), Lb>> }

\* float64 values: below 1/2 every unit, from 1/2 to 1 every second unit
\* (the spacing of the mantissa), and values outside [0, 1).
Chances ==
    {NaN} \cup
    {F(v) : v \in {0 - One, 0 - 1, One, One + 4, 2 * One}} \cup
    {F(v) : v \in {w \in 0 .. (One - 1) : w < One \div 2 \/ w % 2 = 0}}

PotentiallyChildren == {La, Group(<<La, Lb>>)}

SeqVals == (0 .. SeqSpan) \cup ((MaxUint64 - SeqSpan) .. MaxUint64)
Widths == {0 - 1, 0, 1, 2, 3}

Lxy == OneOfByte(<<120, 121>>)
NewItems ==
    { La, Lb, Group(<<>>), Group(<<La>>), Group(<<Lb, Lc>>),
      Potentially(F(0), La), Group(<<Potentially(F(0), La), Lb>>),
      Repeat(2, 2, <<Potentially(F(0), La)>>),
      New(<<La, Group(<<Lb, Lc>>)>>), Lxy }
\* Argument lists of New: at most one argument draws from the random source.
NewArgs ==
    { p \in UNION {[1 .. n -> NewItems] : n \in 0 .. MaxArgs} :
        Cardinality({i \in 1 .. Len(p) : p[i] = Lxy}) <= 1 }

(***************************************************************************)
(* How many values an invocation can draw from the random source.          *)
(***************************************************************************)
RECURSIVE SumNeed(_, _, _)
RECURSIVE MaxNeed(_, _, _)
RECURSIVE Need(_, _)
SumNeed(parts, i, heap) ==
    IF i > Len(parts) THEN 0 ELSE Need(parts[i], heap) + SumNeed(parts, i + 1, heap)
MaxNeed(parts, i, heap) ==
    IF i > Len(parts) THEN 0
    ELSE LET x == Need(parts[i], heap)
             y == MaxNeed(parts, i + 1, heap)
         IN IF x > y THEN x ELSE y
Need(p, heap) ==
    CASE p.kind \in {"gen", "group"} -> SumNeed(p.parts, 1, heap)
      [] p.kind = "repeat" ->
            1 + (IF p.maxr = 0 THEN p.min ELSE p.min + p.maxr - 1)
                * SumNeed(p.parts, 1, heap)
      [] p.kind \in {"potentially50", "potentiallyP"} -> 1 + Need(p.part, heap)
      [] p.kind = "anyOf" -> 1 + MaxNeed(p.parts, 1, heap)
      [] p.kind \in {"anyOfString", "anyOfByte", "anyOfRune"} -> 1
      [] p.kind = "shuffle" ->
            (IF p.len = 0 THEN 1 ELSE p.len - 1) + SumNeed(heap[p.parts], 1, heap)
      [] OTHER -> 0
Streams(n) == [1 .. n -> Raw]

Store(buf, rnd) ==
    [b |-> buf, rnd |-> rnd, i |-> 0, mem |-> mem, ok |-> TRUE, js |-> <<>>]

(***************************************************************************)
(* Init: nothing constructed, the caller holds a buffer.                   *)
(***************************************************************************)
Init ==
    /\ phase = "new"
    /\ req = [fn |-> "none"]
    /\ gen = nullpart
    /\ mem = <<>>
    /\ b0 \in CallerBufs
    /\ prev = b0
    /\ b = b0
    /\ str = <<>>
    /\ strCalls = 0
    /\ calls = 0
    /\ pc = [t \in Threads |-> "idle"]
    /\ last = [t \in Threads |-> 0]
    /\ curr = [t \in Threads |-> 0]
    /\ res = [t \in Threads |-> <<>>]
    /\ log = <<>>

(***************************************************************************)
(* Construction: gen := New(part), where evaluating part may panic.        *)
(***************************************************************************)
Built(r, part, heap) ==
    /\ phase = "new"
    /\ req' = r
    /\ IF IsPanic(part)
       THEN phase' = "panic" /\ gen' = gen /\ mem' = mem
       ELSE phase' = "ready" /\ gen' = New(<<part>>) /\ mem' = heap
    /\ UNCHANGED <<b0, prev, b, str, strCalls, calls, pc, last, curr, res, log>>

ConstructRepeat ==
    \E min \in 0 .. MaxUint32, max \in 0 .. MaxUint32, p \in RepeatChildren :
        Built([fn |-> "Repeat", min |-> min, max |-> max, p |-> p],
              Repeat(min, max, p), mem)

ConstructPotentially ==
    \E c \in Chances, p \in PotentiallyChildren :
        Built([fn |-> "Potentially", c |-> c, p |-> p], Potentially(c, p), mem)

ConstructOneOf ==
    \E n \in AlphabetSizes :
        Built([fn |-> "OneOf", p |-> Lits(n)], OneOf(Lits(n)), mem)

ConstructOneOfString ==
    \E n \in AlphabetSizes :
        Built([fn |-> "OneOfString", p |-> Strs(n)], OneOfString(Strs(n)), mem)

ConstructOneOfByte ==
    \E n \in AlphabetSizes :
        Built([fn |-> "OneOfByte", p |-> Bytes(n)], OneOfByte(Bytes(n)), mem)

ConstructOneOfRune ==
    \E n \in AlphabetSizes :
        Built([fn |-> "OneOfRune", p |-> Runes(n)], OneOfRune(Runes(n)), mem)

ConstructShuffle ==
    \E n \in ShuffleSizes :
        Built([fn |-> "Shuffle", p |-> Lits(n)],
              Shuffle(Lits(n), Len(mem) + 1), Append(mem, Lits(n)))

ConstructSequence ==
    \E start \in SeqVals, max \in SeqVals, width \in Widths :
        Built([fn |-> "Sequence", start |-> start, max |-> max, width |-> width],
              Sequence(start, max, width, Len(mem) + 1),
              Append(mem, SequenceCurr(start)))

\* Sequences of at most SeqSpan + 1 values, unpadded: the callers of one
\* Sequence contend the more the shorter its cycle is.
ConstructShortSequence ==
    \E start \in SeqVals, max \in SeqVals :
        /\ max - start \in 0 .. SeqSpan
        /\ Built([fn |-> "Sequence", start |-> start, max |-> max, width |-> 0],
                 Sequence(start, max, 0, Len(mem) + 1),
                 Append(mem, SequenceCurr(start)))

ConstructNew ==
    \E p \in NewArgs :
        /\ phase = "new"
        /\ req' = [fn |-> "New", p |-> p]
        /\ phase' = "ready"
        /\ gen' = New(p)
        /\ UNCHANGED <<mem, b0, prev, b, str, strCalls, calls, pc, last, curr, res, log>>

(***************************************************************************)
(* Invocation by one caller.                                               *)
(***************************************************************************)
CallLimit == IF req.fn = "Sequence" THEN MaxSeqCalls ELSE MaxCalls

\* b = gen.Append(b)
CallAppend ==
    /\ phase = "ready"
    /\ calls < CallLimit
    /\ \E rnd \in Streams(Need(gen, mem)) :
         LET st == PartAppend(gen, Store(b, rnd))
         IN /\ mem' = st.mem
            /\ IF st.ok
               THEN phase' = phase /\ prev' = b /\ b' = st.b
               ELSE phase' = "genpanic" /\ prev' = prev /\ b' = b
    /\ calls' = calls + 1
    /\ UNCHANGED <<req, gen, b0, str, strCalls, pc, last, curr, res, log>>

\* s := gen.String()
genString(g, st) == AppendEach(g.parts, 0, st)
CallString ==
    /\ phase = "ready"
    /\ strCalls < MaxStringCalls
    /\ strCalls' = strCalls + 1
    /\ \E rnd \in Streams(Need(gen, mem)) :
         LET st == genString(gen, Store(<<>>, rnd))
         IN /\ mem' = st.mem
            /\ IF st.ok
               THEN phase' = phase /\ str' = st.b
               ELSE phase' = "genpanic" /\ str' = str
    /\ UNCHANGED <<req, gen, b0, prev, b, calls, pc, last, curr, res, log>>

(***************************************************************************)
(* Concurrent callers of gen.String() on a generator holding one Sequence: *)
(* each runs sequence.Append's loop one atomic operation at a time.        *)
(***************************************************************************)
TheSequence == gen.parts[1]

ThreadCall(t) ==
    /\ phase = "ready"
    /\ req.fn = "Sequence"
    /\ pc[t] = "idle"
    /\ calls < MaxConcCalls
    /\ calls' = calls + 1
    /\ pc' = [pc EXCEPT ![t] = "load"]
    /\ UNCHANGED <<phase, req, gen, mem, b0, prev, b, str, strCalls, last, curr, res, log>>

\* A call made without counting it: callers may invoke again and again.
Invoke(t) ==
    /\ phase = "ready"
    /\ req.fn = "Sequence"
    /\ pc[t] = "idle"
    /\ pc' = [pc EXCEPT ![t] = "load"]
    /\ UNCHANGED <<phase, req, gen, mem, b0, prev, b, str, strCalls, calls, last, curr,
                   res, log>>

\* last := atomic.LoadUint64(p.curr), and the value to store.
Load(t) ==
    /\ pc[t] = "load"
    /\ last' = [last EXCEPT ![t] = mem[TheSequence.curr]]
    /\ curr' = [curr EXCEPT ![t] = sequenceNext(TheSequence, mem[TheSequence.curr])]
    /\ pc' = [pc EXCEPT ![t] = "cas"]
    /\ UNCHANGED <<phase, req, gen, mem, b0, prev, b, str, strCalls, calls, res, log>>

\* The log after v was stored: it keeps the stores of the counted calls.
Logged(v) == IF Len(log) < calls THEN Append(log, v) ELSE log

\* A variant that retries the compare-and-swap without loading again.
CasNoReload(t) ==
    /\ pc[t] = "cas"
    /\ \/ /\ mem[TheSequence.curr] = last[t]
          /\ mem' = [mem EXCEPT ![TheSequence.curr] = curr[t]]
          /\ log' = Logged(curr[t])
          /\ res' = [res EXCEPT ![t] = appendInt(<<>>, curr[t], TheSequence.width)]
          /\ pc' = [pc EXCEPT ![t] = "idle"]
       \/ /\ mem[TheSequence.curr] # last[t]
          /\ pc' = [pc EXCEPT ![t] = "cas"]
          /\ UNCHANGED <<mem, log, res>>
    /\ UNCHANGED <<phase, req, gen, b0, prev, b, str, strCalls, calls, last, curr>>
\* A store that does not compare: atomic.StoreUint64(p.curr, curr).
CasBlindStore(t) ==
    /\ pc[t] = "cas"
    /\ \/ /\ mem' = [mem EXCEPT ![TheSequence.curr] = curr[t]]
          /\ log' = Logged(curr[t])
          /\ res' = [res EXCEPT ![t] = appendInt(<<>>, curr[t], TheSequence.width)]
          /\ pc' = [pc EXCEPT ![t] = "idle"]
       \/ /\ mem[TheSequence.curr] # last[t]
          /\ pc' = [pc EXCEPT ![t] = "load"]
          /\ UNCHANGED <<mem, log, res>>
    /\ UNCHANGED <<phase, req, gen, b0, prev, b, str, strCalls, calls, last, curr>>
\* atomic.CompareAndSwapUint64(p.curr, last, curr)
Cas(t) ==
    /\ pc[t] = "cas"
    /\ \/ /\ mem[TheSequence.curr] = last[t]
          /\ mem' = [mem EXCEPT ![TheSequence.curr] = curr[t]]
          /\ log' = Logged(curr[t])
          /\ res' = [res EXCEPT ![t] = appendInt(<<>>, curr[t], TheSequence.width)]
          /\ pc' = [pc EXCEPT ![t] = "idle"]
       \/ /\ mem[TheSequence.curr] # last[t]
          /\ pc' = [pc EXCEPT ![t] = "load"]
          /\ UNCHANGED <<mem, log, res>>
    /\ UNCHANGED <<phase, req, gen, b0, prev, b, str, strCalls, calls, last, curr>>

(***************************************************************************)
(* Specifications.                                                         *)
(***************************************************************************)
Next ==
    \/ ConstructRepeat
    \/ ConstructPotentially
    \/ ConstructOneOf
    \/ ConstructOneOfString
    \/ ConstructOneOfByte
    \/ ConstructOneOfRune
    \/ ConstructShuffle
    \/ ConstructSequence
    \/ ConstructNew
    \/ CallAppend
    \/ CallString
Spec == Init /\ [][Next]_vars

NextRepeat == ConstructRepeat \/ CallAppend
SpecRepeat == Init /\ [][NextRepeat]_vars

NextPotentially == ConstructPotentially \/ CallAppend
SpecPotentially == Init /\ [][NextPotentially]_vars

NextChoice ==
    \/ ConstructOneOf
    \/ ConstructOneOfString
    \/ ConstructOneOfByte
    \/ ConstructOneOfRune
    \/ CallAppend
SpecChoice == Init /\ [][NextChoice]_vars

NextShuffle == ConstructShuffle \/ CallAppend
SpecShuffle == Init /\ [][NextShuffle]_vars

NextSequence == ConstructSequence \/ CallAppend
SpecSequence == Init /\ [][NextSequence]_vars

NextNew == ConstructNew \/ CallAppend \/ CallString
SpecNew == Init /\ [][NextNew]_vars

NextConstruct ==
    \/ ConstructRepeat
    \/ ConstructPotentially
    \/ ConstructOneOf
    \/ ConstructOneOfString
    \/ ConstructOneOfByte
    \/ ConstructOneOfRune
    \/ ConstructShuffle
    \/ ConstructSequence
    \/ ConstructNew
    \/ CallAppend
SpecConstruct == Init /\ [][NextConstruct]_vars

NextConcurrent ==
    \/ ConstructSequence
    \/ \E t \in Threads : ThreadCall(t) \/ Load(t) \/ Cas(t)
SpecConcurrent == Init /\ [][NextConcurrent]_vars

\* Callers that invoke without bound.  The scheduler runs every goroutine
\* that can run: a caller inside sequence.Append takes its next step.  It
\* does not decide which compare-and-swap wins, and no caller has to invoke.
NextLive ==
    \/ ConstructShortSequence
    \/ \E t \in Threads : Invoke(t) \/ Load(t) \/ Cas(t)
Fairness == \A t \in Threads : WF_vars(Load(t) \/ Cas(t))
SpecLive == Init /\ [][NextLive]_vars /\ Fairness

(***************************************************************************)
(* Reference definitions the claims are stated with.                       *)
(***************************************************************************)
\* The k-th value of the cycle start, start + 1, ..., max, start, ...
CycleValue(start, max, k) == start + ((k - 1) % (max - start + 1))

\* The decimal digits of v, and s left-padded with '0' to width.
RECURSIVE Decimal(_)
Decimal(v) == IF v < 10 THEN <<48 + v>> ELSE Append(Decimal(v \div 10), 48 + (v % 10))
RECURSIVE ZeroPad(_, _)
ZeroPad(s, width) == IF Len(s) < width THEN ZeroPad(<<48>> \o s, width) ELSE s

\* What a Part without randomness or state outputs.
RECURSIVE RefBytes(_)
RECURSIVE RefConcat(_, _)
RefConcat(parts, i) ==
    IF i > Len(parts) THEN <<>> ELSE RefBytes(parts[i]) \o RefConcat(parts, i + 1)
RefBytes(p) ==
    CASE p.kind = "literal" -> p.s
      [] p.kind \in {"group", "gen"} -> RefConcat(p.parts, 1)
      [] p.kind = "nullpart" -> <<>>

\* n copies of the sequence s, one after the other.
RECURSIVE Copies(_, _)
Copies(s, n) == IF n <= 0 THEN <<>> ELSE s \o Copies(s, n - 1)

\* Every buffer an invocation of gen on buf can return, over all draws.
Outcomes(buf) ==
    { PartAppend(gen, Store(buf, rnd)).b : rnd \in Streams(Need(gen, mem)) }

\* The elements of a sequence, and the orders its elements can be put in.
Range(a) == {a[i] : i \in 1 .. Len(a)}
Perms(a) ==
    { f \in [1 .. Len(a) -> Range(a)] :
        \A i, j \in 1 .. Len(a) : (f[i] = f[j]) => (i = j) }

\* The UTF-8 encodings of the runes of RunePool.
RuneBytes ==
    << <<97>>, <<195, 179>>, <<226, 152, 186>>, <<240, 159, 152, 128>>,
       <<239, 191, 189>> >>

(***************************************************************************)
(* C1: concurrent callers of one Sequence.                                 *)
(***************************************************************************)
\* C1: the values stored by the successful compare-and-swaps, in their
\* order, are start, start + 1, ..., max, start, ...: the i-th is the i-th
\* value of the cycle, for every interleaving of the callers' steps.
C1_EmittedInCycleOrder ==
    (phase = "ready" /\ req.fn = "Sequence") =>
        \A i \in 1 .. Len(log) : log[i] = CycleValue(req.start, req.max, i)

\* A wrap-around happened under contention: the log is back at start after
\* max, while another caller sits before its compare-and-swap with a value
\* it loaded earlier and that the counter holds again.
C1_Witness ==
    /\ phase = "ready" /\ req.fn = "Sequence"
    /\ req.start < req.max
    /\ Len(log) >= 3
    /\ log[Len(log)] = req.start
    /\ log[Len(log) - 1] = req.max
    /\ \E t \in Threads :
          /\ pc[t] = "cas"
          /\ last[t] = mem[TheSequence.curr]
          /\ \E i \in 1 .. (Len(log) - 1) : log[i] = last[t]

(***************************************************************************)
(* C2: one caller of a Sequence.                                           *)
(***************************************************************************)
\* C2: the k-th invocation of a fresh Sequence(start, max, width) appends
\* the decimal digits of start + ((k - 1) mod (max - start + 1)), padded
\* with '0' to at least width digits and never truncated.
C2_KthValuePadded ==
    (phase = "ready" /\ req.fn = "Sequence" /\ calls >= 1) =>
        b = prev \o ZeroPad(Decimal(CycleValue(req.start, req.max, calls)),
                            req.width)

\* The call after max = 2^64 - 1, where last + 1 overflows to 0, yields
\* start > 0 again, with more digits than width asks for.
C2_Witness ==
    /\ phase = "ready" /\ req.fn = "Sequence"
    /\ req.max = MaxUint64
    /\ req.start > 0
    /\ req.start < req.max
    /\ calls = (req.max - req.start) + 2
    /\ mem[TheSequence.curr] = req.start
    /\ b = prev \o Decimal(req.start)
    /\ req.width > 0
    /\ req.width < Len(Decimal(req.start))

(***************************************************************************)
(* C3: generation after a successful construction.                         *)
(***************************************************************************)
\* C3: once construction has succeeded, no invocation of String or Append
\* panics, whatever Parts the constructors accepted.
C3_NoGenerationPanic == phase # "genpanic"

(***************************************************************************)
(* C4, C5: Repeat.                                                         *)
(***************************************************************************)
RepeatUnit == RefConcat(req.p, 1)

\* C4: each invocation of Repeat(min, max, children) appends n copies of
\* the children's concatenated output for some n in [min, max]; with
\* min = max = k it appends what Group of the children repeated k times does.
C4_CountWithinBounds ==
    (phase = "ready" /\ req.fn = "Repeat" /\ calls >= 1) =>
        /\ \E n \in req.min .. req.max : b = prev \o Copies(RepeatUnit, n)
        /\ req.min = req.max =>
              /\ b = prev \o Copies(RepeatUnit, req.max)
              /\ b = PartAppend(New(<<Group(Copies(req.p, req.max))>>),
                                Store(prev, <<>>)).b

\* The general path has appended max > min > 0 copies of a unit that is
\* not empty.
C4_Witness ==
    /\ phase = "ready" /\ req.fn = "Repeat" /\ calls >= 1
    /\ 0 < req.min /\ req.min < req.max
    /\ gen.parts[1].kind = "repeat"
    /\ Len(RepeatUnit) > 0
    /\ b = prev \o Copies(RepeatUnit, req.max)

\* C5: for every min <= max that Repeat accepts, every count n in
\* [min, max] is a possible repetition count of an invocation.
C5_EveryCountPossible ==
    (phase = "ready" /\ req.fn = "Repeat" /\ Len(RepeatUnit) > 0) =>
        \A n \in req.min .. req.max : (b \o Copies(RepeatUnit, n)) \in Outcomes(b)

(***************************************************************************)
(* C6: Shuffle.                                                            *)
(***************************************************************************)
TheShuffle == gen.parts[1]
Stored == mem[TheShuffle.parts]

\* What the shuffling loop can do from the stored order: the indices it
\* draws and the order it leaves, for every stream of raw draws.
ShuffleRuns ==
    { LET st == shuffleLoop(TheShuffle, ToU32(TheShuffle.len - 1), Store(b, rnd))
      IN [js |-> st.js, order |-> st.mem[TheShuffle.parts]] :
      rnd \in Streams(Need(gen, mem)) }

ShuffleIsFair ==
    LET n == Len(req.p)
    IN /\ Len(Stored) = n
       /\ Range(Stored) = Range(req.p)
       /\ calls >= 1 => b = prev \o RefConcat(Stored, 1)
       /\ \A r \in ShuffleRuns :
             /\ Len(r.js) = n - 1
             /\ \A k \in 1 .. (n - 1) : r.js[k] \in 0 .. (n - k)
       /\ {r.order : r \in ShuffleRuns} = Perms(Stored)
       /\ \A o \in Perms(Stored) :
             Cardinality({r.js : r \in {x \in ShuffleRuns : x.order = o}}) = 1

ChoiceFns == {"OneOf", "OneOfString", "OneOfByte", "OneOfRune"}

\* What selecting the i-th entry of the alphabet appends.
Entry(i) ==
    CASE req.fn = "OneOf"       -> RefBytes(req.p[i])
      [] req.fn = "OneOfString" -> req.p[i]
      [] req.fn = "OneOfByte"   -> <<req.p[i]>>
      [] req.fn = "OneOfRune"   -> RuneBytes[((i - 1) % Len(RunePool)) + 1]

ChoiceIsFair ==
    LET n == Len(req.p)
    IN /\ Outcomes(b) = {b \o Entry(i) : i \in 1 .. n}
       /\ calls >= 1 => \E i \in 1 .. n : b = prev \o Entry(i)
       /\ gen.parts[1].kind \in {"anyOf", "anyOfString", "anyOfByte", "anyOfRune"}
             => \A r \in Raw : RandN(gen.parts[1].len, r) < n
       /\ (req.fn = "OneOf" /\ n = 1) => gen.parts = <<req.p[1]>>

\* C7 as claimed: for every non-empty alphabet each invocation appends
\* exactly one entry of it (the index drawn is within the alphabet), every
\* entry is a possible selection, and OneOf of one candidate is the candidate.
C7_ChoiceAnySize ==
    (phase = "ready" /\ req.fn \in ChoiceFns /\ Len(req.p) >= 1) => ChoiceIsFair

\* C7 as amended: the same for every alphabet of 1 <= count < 2^32 entries.
C7_ChoiceBelowUint32 ==
    (phase = "ready" /\ req.fn \in ChoiceFns /\ Len(req.p) >= 1
        /\ Len(req.p) < U32) => ChoiceIsFair

\* OneOfRune over the largest alphabet a uint32 counts has appended the
\* encoding of its last entry.
C7_Witness ==
    /\ phase = "ready" /\ req.fn = "OneOfRune"
    /\ Len(req.p) = MaxUint32
    /\ calls >= 1
    /\ b = prev \o Entry(MaxUint32)
    /\ Entry(MaxUint32) # Entry(1)

(***************************************************************************)
(* C8: Potentially.                                                        *)
(***************************************************************************)
\* C8: Potentially(0, child) appends nothing; Potentially(c, child) with
\* c >= 1 appends the child's output; for every 0 < c < 1 an invocation
\* appends nothing or the child's output, and both are possible.
C8_PotentiallyOutcomes ==
    (phase = "ready" /\ req.fn = "Potentially") =>
        LET child == RefBytes(req.p)
        IN /\ FEq(req.c, F(0)) => Outcomes(b) = {b}
           /\ FGe(req.c, F(One)) => Outcomes(b) = {b \o child}
           /\ (FLt(F(0), req.c) /\ FLt(req.c, F(One)))
                 => Outcomes(b) = {b, b \o child}

(***************************************************************************)
(* C9: what the constructors reject.                                       *)
(***************************************************************************)
Invalid(r) ==
    CASE r.fn = "Repeat"      -> r.max = 0 \/ r.max < r.min
      [] r.fn = "Potentially" -> ~r.c.nan /\ r.c.v < 0
      [] r.fn = "Sequence"    -> r.max < r.start
      [] OTHER                -> FALSE

\* C9: a constructor call panics exactly when it is Repeat with max = 0 or
\* max < min, Potentially with c < 0, or Sequence with max < start; every
\* other call constructs, and no such configuration is rejected later.
C9_RejectedAtConstruction ==
    (req.fn # "none") => ((phase = "panic") <=> Invalid(req))

\* Repeat(0, 0, ...) was rejected: max >= min holds, max > 0 does not.
C9_Witness ==
    /\ phase = "panic"
    /\ req.fn = "Repeat"
    /\ req.min = 0
    /\ req.max = 0

(***************************************************************************)
(* C10: the Generator.                                                     *)
(***************************************************************************)
\* What the argument a of New can output.
ArgOutcomes(a) == IF a = Lxy THEN {<<120>>, <<121>>} ELSE {RefBytes(a)}

\* The outputs of the arguments p[i], p[i + 1], ... one after the other.
RECURSIVE ArgsOutcomes(_, _)
ArgsOutcomes(p, i) ==
    IF i > Len(p) THEN {<<>>}
    ELSE {x \o y : x \in ArgOutcomes(p[i]), y \in ArgsOutcomes(p, i + 1)}

\* buf extended by k outputs of the arguments p.
RECURSIVE Extended(_, _, _)
Extended(buf, p, k) ==
    IF k = 0 THEN {buf}
    ELSE {y \o x : y \in Extended(buf, p, k - 1), x \in ArgsOutcomes(p, 1)}

\* C10: Append(b) returns b followed by the outputs of the arguments of
\* New in their order (a Group's children in order, nothing for Group(), a
\* nested Generator's own output); k calls extend b by k outputs; String()
\* returns what Append returns on an empty buffer.
C10_AppendExtendsBuffer ==
    (phase = "ready" /\ req.fn = "New") =>
        /\ Outcomes(b) = {b \o x : x \in ArgsOutcomes(req.p, 1)}
        /\ calls >= 1 => \E x \in ArgsOutcomes(req.p, 1) : b = prev \o x
        /\ b \in Extended(b0, req.p, calls)
        /\ \A rnd \in Streams(Need(gen, mem)) :
              genString(gen, Store(<<>>, rnd)).b = PartAppend(gen, Store(<<>>, rnd)).b
        /\ str # <<>> => str \in ArgsOutcomes(req.p, 1)

\* Two Append calls on a buffer that was not empty, of a Generator built
\* from a Group and a nested Generator, and a String call.
C10_Witness ==
    /\ phase = "ready" /\ req.fn = "New"
    /\ req.p = <<Group(<<Lb, Lc>>), New(<<La, Group(<<Lb, Lc>>)>>)>>
    /\ calls = 2
    /\ b0 # <<>>
    /\ b = b0 \o <<98, 99, 97, 98, 99>> \o <<98, 99, 97, 98, 99>>
    /\ str = <<98, 99, 97, 98, 99>>

(***************************************************************************)
(* C11: progress of concurrent callers of one Sequence.                    *)
(***************************************************************************)
InLoop(t) == pc[t] # "idle"

\* Caller t's compare-and-swap succeeds: its invocation completes.
Completes(t) == Cas(t) /\ pc'[t] = "idle"

\* C11 as stated: every invocation of Append on a Sequence eventually
\* completes, also while other callers keep invoking, when every caller in
\* the loop is scheduled fairly.
C11_EveryCallCompletes ==
    \A t \in Threads : InLoop(t) ~> ~InLoop(t)

\* C11: some invocation always completes (the loop is lock-free): either
\* compare-and-swaps succeed again and again, or from some point on no
\* caller is inside Append.
C11_SomeCallCompletes ==
    \/ []<><<\E u \in Threads : Completes(u)>>_vars
    \/ <>[](\A t \in Threads : ~InLoop(t))

\* A caller is back at the load after a failed compare-and-swap: another
\* caller stored a value after it had loaded, completed, and invoked again.
C11_Witness ==
    /\ phase = "ready" /\ req.fn = "Sequence"
    /\ req.start < req.max
    /\ \E t, u \in Threads :
          /\ t # u
          /\ pc[t] = "load"
          /\ curr[t] = mem[TheSequence.curr]
          /\ last[t] # mem[TheSequence.curr]
          /\ res[u] # <<>>
          /\ pc[u] = "cas"

(***************************************************************************)
(* C12: the child list New builds.                                         *)
(***************************************************************************)
\* C12: the child list of the Generator New returns holds no no-op node,
\* whatever the arguments: also none that came inside a Group argument.
C12_NoNoOpChild ==
    (phase = "ready" /\ req.fn = "New") =>
        \A i \in 1 .. Len(gen.parts) : gen.parts[i] # nullpart

=============================================================================
